---------------------------- MODULE Spec2Model ----------------------------
(***************************************************************************)
(* Model of the stock-analyst-filter repository.                           *)
(*                                                                         *)
(*   fetch_data.py : four index scrapers, the custom list, the             *)
(*                   deduplicating aggregation of the main block and the   *)
(*                   per-ticker retrieval loop fetch_analyst_data.         *)
(*   app.py        : the dashboard script (cached load_data, refresh       *)
(*                   button, filter mask, sort, metric).                   *)
(*                                                                         *)
(* Three specifications share the variables:                               *)
(*   FetchSpec : fetch_analyst_data called on an arbitrary ticker list.    *)
(*   MainSpec  : the __main__ block of fetch_data.py (scrape, aggregate,   *)
(*               fetch, save).                                             *)
(*   DashSpec  : reruns of app.py against the snapshot file and the        *)
(*               process-local cache.                                      *)
(*                                                                         *)
(* A Python string is a sequence of one-character strings.  A missing      *)
(* (NaN) cell of a scraped table is the one-element sequence <<"NaN">>.    *)
(* A nullable number of the snapshot is <<>> (NaN) or <<n>>.               *)
(***************************************************************************)
EXTENDS Integers, Sequences, FiniteSets, TLC

VARIABLES
    \* ---- fetch_data.py ------------------------------------------------
    pc,               \* position of the fetch script
    pages,            \* what each of the four source URLs serves
    sp500, nasdaq, russell, tsx, custom,   \* the five source lists
    master_list,      \* list(set(...)) of the main block
    tickers,          \* argument of fetch_analyst_data
    i,                \* enumerate index of the outer loop (1-based)
    attempts,         \* symbols to try for tickers[i]
    k,                \* position in attempts
    success,          \* the success flag of the current ticker
    data_list,        \* rows collected so far
    trace,            \* history: remote attempts and sleeps, in order
    stock_data_csv,   \* <<>> until df.to_csv, then <<rows>>
    \* ---- app.py -------------------------------------------------------
    dpc,              \* position of the dashboard script run
    disk,             \* stock_data.csv as the dashboard sees it
    cache,            \* st.cache_data entry of load_data
    df,               \* value returned by load_data in this run
    min_analysts, min_upside, min_div,     \* floor widgets
    rating_filter, selected_sectors,       \* multiselect widgets
    sort_col,         \* radio widget
    filtered_df, sorted_df,
    shown,            \* what the run rendered: "nothing", "error", "table"
    button,           \* whether this run was started by "Refresh Data"
    ran,              \* history: the steps this run has executed
    hist              \* history of the load_data calls

fetchVars == <<pc, pages, sp500, nasdaq, russell, tsx, custom, master_list,
               tickers, i, attempts, k, success, data_list, trace,
               stock_data_csv>>
dashVars == <<dpc, disk, cache, df, min_analysts, min_upside, min_div,
              rating_filter, selected_sectors, sort_col, filtered_df,
              sorted_df, shown, button, ran, hist>>
vars == <<fetchVars, dashVars>>

-----------------------------------------------------------------------------
(* Bounds of the model.                                                    *)

\* longest ticker list handed to fetch_analyst_data in FetchSpec
MaxTickers == 3
\* how many entries of the hand-curated list the model keeps
MaxCustom == 1

-----------------------------------------------------------------------------
(* Python string operations used by fetch_data.py.                         *)

Range(s) == {s[n] : n \in DOMAIN s}

startswith(s, p) == Len(s) >= Len(p) /\ SubSeq(s, 1, Len(p)) = p

endswith(s, p) == Len(s) >= Len(p) /\ SubSeq(s, Len(s) - Len(p) + 1, Len(s)) = p

\* str.replace: every non-overlapping occurrence, left to right
RECURSIVE replace(_, _, _)
replace(s, old, new) ==
    IF Len(s) = 0 THEN s
    ELSE IF startswith(s, old)
         THEN new \o replace(SubSeq(s, Len(old) + 1, Len(s)), old, new)
         ELSE <<Head(s)>> \o replace(Tail(s), old, new)

RECURSIVE lstrip(_)
lstrip(s) == IF Len(s) > 0 /\ Head(s) = " " THEN lstrip(Tail(s)) ELSE s

RECURSIVE rstrip(_)
rstrip(s) ==
    IF Len(s) > 0 /\ s[Len(s)] = " " THEN rstrip(SubSeq(s, 1, Len(s) - 1)) ELSE s

strip(s) == rstrip(lstrip(s))

NaNCell == <<"NaN">>

\* str(cell): a float NaN prints as "nan"
str(cell) == IF cell = NaNCell THEN <<"n", "a", "n">> ELSE cell

DOT == <<".">>
DASH == <<"-">>
TO == <<".", "T", "O">>
NE == <<".", "N", "E">>

-----------------------------------------------------------------------------
(* Results of a try block: a value, or an exception on its way out.        *)

Ok(v) == [raised |-> FALSE, val |-> v]
Exc == [raised |-> TRUE, val |-> <<>>]

\* [t.replace('.', '-') for t in column]: a NaN cell is a float and has no
\* replace method, so the comprehension raises AttributeError.
dot_to_dash(column) ==
    IF \E n \in DOMAIN column : column[n] = NaNCell
    THEN Exc
    ELSE Ok([n \in DOMAIN column |-> replace(column[n], DOT, DASH)])

\* what a source URL serves: nothing (the request fails), or a page whose
\* HTML holds a list of tables; a table maps column names to cell lists
Down == [up |-> FALSE, tables |-> <<>>]
Up(tables) == [up |-> TRUE, tables |-> tables]

\* requests.get + pd.read_html: a failed request raises, and so does a page
\* without any table ("No tables found").
read_tables(page) ==
    IF ~page.up THEN Exc
    ELSE IF Len(page.tables) = 0 THEN Exc
    ELSE Ok(page.tables)

\* first table of the page having one of two columns, or <<>> for None
first_with(tables, c1, c2) ==
    LET hits == {n \in DOMAIN tables :
                    c1 \in DOMAIN tables[n] \/ c2 \in DOMAIN tables[n]}
    IN IF hits = {} THEN <<>>
       ELSE <<tables[CHOOSE n \in hits : \A m \in hits : n <= m]>>

-----------------------------------------------------------------------------
(* The scrapers.  X_try is the body of the try block, X the function.      *)

sp500_try(page) ==
    LET r == read_tables(page) IN
    IF r.raised THEN Exc
    ELSE LET t == r.val[1] IN
         IF "Symbol" \notin DOMAIN t THEN Exc      \* KeyError
         ELSE dot_to_dash(t.Symbol)

get_sp500_tickers(page) ==
    LET r == sp500_try(page) IN IF r.raised THEN Ok(<<>>) ELSE r

nasdaq100_try(page) ==
    LET r == read_tables(page) IN
    IF r.raised THEN Exc
    ELSE LET target_df == first_with(r.val, "Ticker", "Symbol") IN
         IF target_df = <<>> THEN Ok(<<>>)
         ELSE LET t == target_df[1] IN
              IF "Ticker" \in DOMAIN t THEN dot_to_dash(t.Ticker)
              ELSE dot_to_dash(t.Symbol)

get_nasdaq100_tickers(page) ==
    LET r == nasdaq100_try(page) IN IF r.raised THEN Ok(<<>>) ELSE r

russell1000_try(page) ==
    LET r == read_tables(page) IN
    IF r.raised THEN Exc
    ELSE LET target_df == first_with(r.val, "Symbol", "Ticker") IN
         IF target_df = <<>> THEN Ok(<<>>)
         ELSE LET t == target_df[1] IN
              IF "Symbol" \in DOMAIN t THEN dot_to_dash(t.Symbol)
              ELSE dot_to_dash(t.Ticker)

get_russell1000_tickers(page) ==
    LET r == russell1000_try(page) IN IF r.raised THEN Ok(<<>>) ELSE r

\* one cell of the TSX table: strip, share class dot to dash, .TO suffix
clean_ticker(cell) ==
    LET t == replace(strip(str(cell)), DOT, DASH) IN
    IF ~endswith(t, TO) THEN t \o TO ELSE t

possible_names == <<"Ticker", "Symbol", "Ticker symbol">>

\* next(name for name in possible_names if name in df.columns, None)
col_name(t) ==
    LET hits == {n \in DOMAIN possible_names : possible_names[n] \in DOMAIN t}
    IN IF hits = {} THEN <<>>
       ELSE <<possible_names[CHOOSE n \in hits : \A m \in hits : n <= m]>>

\* the length test of the page's table list
TsxMinTables == 3

tsx_try(page) ==
    LET r == read_tables(page) IN
    IF r.raised THEN Exc
    ELSE IF Len(r.val) < TsxMinTables THEN Ok(<<>>)
    ELSE IF Len(r.val) < 4 THEN Exc                \* tables[3]: IndexError
    ELSE LET t == r.val[4]
             c == col_name(t)
         IN IF c = <<>> THEN Ok(<<>>)
            ELSE Ok([n \in DOMAIN t[c[1]] |-> clean_ticker(t[c[1]][n])])

\* the scraper with no except clause around its body
get_tsx_noexcept(page) == tsx_try(page)

get_tsx_composite_tickers(page) ==
    LET r == tsx_try(page) IN IF r.raised THEN Ok(<<>>) ELSE r

CustomTickers ==
    << <<"G", "M", "E">>, <<"A", "M", "C">>, <<"P", "L", "T", "R">>,
       <<"H", "O", "O", "D">>, <<"C", "O", "I", "N">>,
       <<"R", "I", "V", "N">>, <<"S", "O", "F", "I">>,
       <<"A", "R", "K", "K">>, <<"S", "P", "Y">>, <<"Q", "Q", "Q">>,
       <<"I", "W", "M">>, <<"A", "P", "L", "D">>, <<"M", "A", "R", "A">>,
       <<"C", "I", "F", "R">>, <<"I", "R", "E", "N">>,
       <<"A", "E", "V", "A">>, <<"I", "N", "O", "D">>,
       <<"N", "B", "I", "S">> >>

\* the hand-curated list, cut to its first MaxCustom entries
get_custom_tickers == SubSeq(CustomTickers, 1, MaxCustom)

-----------------------------------------------------------------------------
(* The aggregation of the main block.                                      *)

\* all orders in which a set can be listed
Perms(S) ==
    {p \in [1..Cardinality(S) -> S] :
        \A a, b \in 1..Cardinality(S) : a # b => p[a] # p[b]}

\* the concatenation with the set() forgotten
master_lists_nodedup(a, b, c, d, e) == {a \o b \o c \o d \o e}

\* list(set(sp500 + nasdaq + russell + tsx + custom)): the iteration order of
\* a Python set of strings is not fixed, so every order is a possible result
master_lists(a, b, c, d, e) == Perms(Range(a \o b \o c \o d \o e))

-----------------------------------------------------------------------------
(* fetch_analyst_data.                                                     *)

\* the alternate appended without the endswith test
attempts_for_nocheck(ticker) == <<ticker, replace(ticker, TO, NE)>>

\* the alternate being the symbol without its suffix
attempts_for_strip(ticker) ==
    IF endswith(ticker, TO) THEN <<ticker, replace(ticker, TO, <<>>)>>
    ELSE <<ticker>>

\* attempts = [ticker], plus the .NE symbol when ticker ends in .TO
attempts_for(ticker) ==
    IF endswith(ticker, TO) THEN <<ticker, replace(ticker, TO, NE)>>
    ELSE <<ticker>>

\* What the remote source does on one attempt:
\*   info_raises : stock.info raises
\*   no_price    : currentPrice or targetMeanPrice is missing (or zero)
\*   recs_raise  : stock.recommendations raises; the counts stay 0
\*   recs_nan    : a recommendation count is NaN, so int() raises
\*   full        : everything is there
Outcomes == {"info_raises", "no_price", "recs_raise", "recs_nan", "full"}

\* the body of the outer try block: the rows it appends, or an exception
attempt_try(current_ticker, outcome) ==
    CASE outcome = "info_raises" -> Exc
      [] outcome = "no_price"    -> Ok(<<>>)
      [] outcome = "recs_raise"  -> Ok(<<[Ticker |-> current_ticker]>>)
      [] outcome = "recs_nan"    -> Exc
      [] outcome = "full"        -> Ok(<<[Ticker |-> current_ticker]>>)

\* the attempt with no except clause around it
attempt_noexcept(current_ticker, outcome) == attempt_try(current_ticker, outcome)

\* try ... except Exception: pass
attempt(current_ticker, outcome) ==
    LET r == attempt_try(current_ticker, outcome) IN
    IF r.raised THEN Ok(<<>>) ELSE r

AttemptEv(idx, n, sym, row) ==
    [ev |-> "attempt", i |-> idx, n |-> n, sym |-> sym, row |-> row]
SleepEv == [ev |-> "sleep"]

\* for i, ticker in enumerate(tickers): attempts = ...; success = False
LoopHead ==
    /\ pc = "loop_head"
    /\ i <= Len(tickers)
    /\ attempts' = attempts_for(tickers[i])
    /\ success' = FALSE
    /\ k' = 1
    /\ pc' = "attempt"
    /\ UNCHANGED <<pages, sp500, nasdaq, russell, tsx, custom, master_list,
                   tickers, i, data_list, trace, stock_data_csv, dashVars>>

\* one pass of "for current_ticker in attempts" that reaches the try block
Attempt ==
    /\ pc = "attempt"
    /\ k <= Len(attempts)
    /\ ~success
    /\ \E outcome \in Outcomes :
          LET r == attempt(attempts[k], outcome) IN
          /\ trace' = Append(trace,
                         AttemptEv(i, k, attempts[k], ~r.raised /\ r.val # <<>>))
          /\ IF r.raised
             THEN /\ pc' = "crashed"
                  /\ UNCHANGED <<data_list, success, k>>
             ELSE /\ data_list' = data_list \o r.val
                  /\ success' = IF r.val # <<>> THEN TRUE ELSE success
                  /\ k' = k + 1
                  /\ pc' = "attempt"
    /\ UNCHANGED <<pages, sp500, nasdaq, russell, tsx, custom, master_list,
                   tickers, i, attempts, stock_data_csv, dashVars>>

\* the inner loop ends: attempts exhausted, or "if success: break";
\* then the failure print and time.sleep
AfterAttempts ==
    /\ pc = "attempt"
    /\ k > Len(attempts) \/ success
    /\ trace' = Append(trace, SleepEv)
    /\ i' = i + 1
    /\ pc' = "loop_head"
    /\ UNCHANGED <<pages, sp500, nasdaq, russell, tsx, custom, master_list,
                   tickers, attempts, k, success, data_list, stock_data_csv,
                   dashVars>>

\* return pd.DataFrame(data_list)
Return ==
    /\ pc = "loop_head"
    /\ i > Len(tickers)
    /\ pc' = "returned"
    /\ UNCHANGED <<pages, sp500, nasdaq, russell, tsx, custom, master_list,
                   tickers, i, attempts, k, success, data_list, trace,
                   stock_data_csv, dashVars>>

-----------------------------------------------------------------------------
(* The main block of fetch_data.py.                                        *)

\* sp500 = get_sp500_tickers()
ScrapeSP500 ==
    /\ pc = "sp500"
    /\ LET r == get_sp500_tickers(pages.sp500) IN
       IF r.raised THEN pc' = "crashed" /\ UNCHANGED sp500
       ELSE pc' = "nasdaq" /\ sp500' = r.val
    /\ UNCHANGED <<pages, nasdaq, russell, tsx, custom, master_list, tickers,
                   i, attempts, k, success, data_list, trace, stock_data_csv,
                   dashVars>>

\* nasdaq = get_nasdaq100_tickers()
ScrapeNasdaq ==
    /\ pc = "nasdaq"
    /\ LET r == get_nasdaq100_tickers(pages.nasdaq) IN
       IF r.raised THEN pc' = "crashed" /\ UNCHANGED nasdaq
       ELSE pc' = "russell" /\ nasdaq' = r.val
    /\ UNCHANGED <<pages, sp500, russell, tsx, custom, master_list, tickers,
                   i, attempts, k, success, data_list, trace, stock_data_csv,
                   dashVars>>

\* russell = get_russell1000_tickers()
ScrapeRussell ==
    /\ pc = "russell"
    /\ LET r == get_russell1000_tickers(pages.russell) IN
       IF r.raised THEN pc' = "crashed" /\ UNCHANGED russell
       ELSE pc' = "tsx" /\ russell' = r.val
    /\ UNCHANGED <<pages, sp500, nasdaq, tsx, custom, master_list, tickers,
                   i, attempts, k, success, data_list, trace, stock_data_csv,
                   dashVars>>

\* tsx = get_tsx_composite_tickers()
ScrapeTSX ==
    /\ pc = "tsx"
    /\ LET r == get_tsx_composite_tickers(pages.tsx) IN
       IF r.raised THEN pc' = "crashed" /\ UNCHANGED tsx
       ELSE pc' = "custom" /\ tsx' = r.val
    /\ UNCHANGED <<pages, sp500, nasdaq, russell, custom, master_list, tickers,
                   i, attempts, k, success, data_list, trace, stock_data_csv,
                   dashVars>>

\* custom = get_custom_tickers()
GetCustom ==
    /\ pc = "custom"
    /\ custom' = get_custom_tickers
    /\ pc' = "dedup"
    /\ UNCHANGED <<pages, sp500, nasdaq, russell, tsx, master_list, tickers,
                   i, attempts, k, success, data_list, trace, stock_data_csv,
                   dashVars>>

\* master_list = list(set(sp500 + nasdaq + russell + tsx + custom))
Deduplicate ==
    /\ pc = "dedup"
    /\ master_list' \in master_lists(sp500, nasdaq, russell, tsx, custom)
    /\ pc' = "fetch_call"
    /\ UNCHANGED <<pages, sp500, nasdaq, russell, tsx, custom, tickers, i,
                   attempts, k, success, data_list, trace, stock_data_csv,
                   dashVars>>

\* df = fetch_analyst_data(master_list): entry of the function
FetchCall ==
    /\ pc = "fetch_call"
    /\ tickers' = master_list
    /\ data_list' = <<>>
    /\ i' = 1
    /\ pc' = "loop_head"
    /\ UNCHANGED <<pages, sp500, nasdaq, russell, tsx, custom, master_list,
                   attempts, k, success, trace, stock_data_csv, dashVars>>

\* df.to_csv("stock_data.csv", index=False)
Save ==
    /\ pc = "returned"
    /\ stock_data_csv' = <<data_list>>
    /\ pc' = "saved"
    /\ UNCHANGED <<pages, sp500, nasdaq, russell, tsx, custom, master_list,
                   tickers, i, attempts, k, success, data_list, trace,
                   dashVars>>

-----------------------------------------------------------------------------
(* Inputs.                                                                 *)

CellA == <<"A">>
CellBB == <<"B", ".", "B">>
CellBBpad == <<" ", "B", ".", "B", " ">>
TblCompany == [Company |-> <<CellA>>]

\* pages the S&P 500 URL may serve
SP500Pages ==
    { Down, Up(<<>>), Up(<<TblCompany>>),
      Up(<<[Symbol |-> <<CellA, CellBB>>]>>) }

\* pages the Nasdaq-100 URL may serve
NasdaqPages ==
    { Down, Up(<<TblCompany>>),
      Up(<<TblCompany, [Ticker |-> <<CellA>>, Symbol |-> <<CellBB>>]>>) }

\* pages the Russell 1000 URL may serve
RussellPages ==
    { Down, Up(<<[Symbol |-> <<NaNCell>>]>>),
      Up(<<TblCompany, [Ticker |-> <<CellBB>>]>>) }

\* pages the TSX URL may serve: 2, 3 and 4 tables
TSXPages ==
    { Down,
      Up(<<TblCompany, TblCompany>>),
      Up(<<TblCompany, TblCompany, [Ticker |-> <<CellBBpad>>]>>),
      Up(<<TblCompany, TblCompany, TblCompany, TblCompany>>),
      Up(<<TblCompany, TblCompany, TblCompany,
           ("Ticker symbol" :> <<CellBBpad>>)>>) }

\* symbols of the ticker lists handed to fetch_analyst_data in FetchSpec
FetchSymbols ==
    { <<"A">>, <<"A">> \o TO, <<"A">> \o NE, <<"B", "-", "B">> \o TO }

SeqsUpTo(S, n) == UNION {[1..m -> S] : m \in 0..n}

\* the dashboard does not run in the fetch specifications
DashIdle ==
    /\ dpc = "idle" /\ disk = "missing" /\ cache = "empty" /\ df = "unset"
    /\ min_analysts = 0 /\ min_upside = 0 /\ min_div = 0
    /\ rating_filter = {} /\ selected_sectors = {}
    /\ sort_col = "Upside_Potential"
    /\ filtered_df = <<>> /\ sorted_df = <<>>
    /\ shown = "nothing" /\ button = FALSE /\ ran = {} /\ hist = <<>>

FetchLocalsInit ==
    /\ i = 1 /\ attempts = <<>> /\ k = 1 /\ success = FALSE
    /\ data_list = <<>> /\ trace = <<>> /\ stock_data_csv = <<>>

\* fetch_analyst_data(tickers) on any list: data_list = [], the loop starts
FetchInit ==
    /\ pc = "loop_head"
    /\ tickers \in SeqsUpTo(FetchSymbols, MaxTickers)
    /\ pages = [sp500 |-> Down, nasdaq |-> Down, russell |-> Down, tsx |-> Down]
    /\ sp500 = <<>> /\ nasdaq = <<>> /\ russell = <<>> /\ tsx = <<>>
    /\ custom = <<>> /\ master_list = <<>>
    /\ FetchLocalsInit
    /\ DashIdle

FetchNext == LoopHead \/ Attempt \/ AfterAttempts \/ Return

FetchSpec == FetchInit /\ [][FetchNext]_vars

\* python fetch_data.py
MainInit ==
    /\ pc = "sp500"
    /\ pages \in [sp500 : SP500Pages, nasdaq : NasdaqPages,
                  russell : RussellPages, tsx : TSXPages]
    /\ sp500 = <<>> /\ nasdaq = <<>> /\ russell = <<>> /\ tsx = <<>>
    /\ custom = <<>> /\ master_list = <<>> /\ tickers = <<>>
    /\ FetchLocalsInit
    /\ DashIdle

MainNext ==
    \/ ScrapeSP500 \/ ScrapeNasdaq \/ ScrapeRussell \/ ScrapeTSX
    \/ GetCustom \/ Deduplicate \/ FetchCall
    \/ LoopHead \/ Attempt \/ AfterAttempts \/ Return
    \/ Save

MainSpec == MainInit /\ [][MainNext]_vars

-----------------------------------------------------------------------------
(* Properties of fetch_analyst_data (FetchSpec).                           *)

IsAttempt(e) == e.ev = "attempt"
AttemptsOf(j) == SelectSeq(trace, LAMBDA e : IsAttempt(e) /\ e.i = j)
Primary == SelectSeq(trace, LAMBDA e : IsAttempt(e) /\ e.n = 1)
RowsOf(tr) ==
    LET hit == SelectSeq(tr, LAMBDA e : IsAttempt(e) /\ e.row)
    IN [n \in DOMAIN hit |-> [Ticker |-> hit[n].sym]]

\* tickers[j] has been dealt with: the loop moved past it
Completed(j) == j < i \/ pc = "returned"

\* C1: whatever fails, the loop never ends by an exception, the tickers are
\* attempted one after another in list order, all of them by the time the
\* function returns, and data_list holds a row for every successful attempt
\* made so far (a later failure removes none).
C1_EveryTickerAttempted ==
    /\ pc # "crashed"
    /\ Len(Primary) <= Len(tickers)
    /\ \A n \in DOMAIN Primary :
          Primary[n].i = n /\ Primary[n].sym = tickers[n]
    /\ pc = "returned" => Len(Primary) = Len(tickers)
    /\ data_list = RowsOf(trace)

\* C1 witness: three tickers; the first gave a row, the second failed on
\* every attempt, the third was still attempted and gave a row.
C1_Witness ==
    /\ pc = "returned" /\ Len(tickers) = 3
    /\ \E e \in Range(trace) : IsAttempt(e) /\ e.i = 1 /\ e.row
    /\ \A e \in Range(trace) : IsAttempt(e) /\ e.i = 2 => ~e.row
    /\ \E e \in Range(trace) : IsAttempt(e) /\ e.i = 3 /\ e.row
    /\ Len(data_list) = 2

\* the symbol with its three-character suffix replaced by .NE
WithNE(t) == SubSeq(t, 1, Len(t) - 3) \o NE

\* C2: a ticker gets at most two attempts, the first under its own symbol;
\* a second one happens exactly when the ticker ends in .TO and the first
\* gave no row, and is made under the .NE symbol; a ticker not ending in
\* .TO is attempted exactly once; nothing follows a successful attempt.
C2_AtMostOneRetry ==
    \A j \in DOMAIN tickers :
       LET a == AttemptsOf(j) IN
       /\ Len(a) <= 2
       /\ Len(a) >= 1 => a[1].sym = tickers[j]
       /\ Len(a) = 2 => /\ endswith(tickers[j], TO)
                        /\ ~a[1].row
                        /\ a[2].sym = WithNE(tickers[j])
       /\ \A n \in DOMAIN a : a[n].row => n = Len(a)
       /\ Completed(j) =>
             /\ Len(a) >= 1
             /\ ~endswith(tickers[j], TO) => Len(a) = 1
             /\ endswith(tickers[j], TO) /\ ~a[1].row => Len(a) = 2
             /\ a[1].row => Len(a) = 1

\* C2 witness: a .TO ticker that failed and got its row under .NE, next to
\* a ticker without the suffix that failed and was tried once.
C2_Witness ==
    /\ pc = "returned"
    /\ \E j \in DOMAIN tickers :
          /\ Len(AttemptsOf(j)) = 2
          /\ AttemptsOf(j)[2].row
    /\ \E j \in DOMAIN tickers :
          /\ ~endswith(tickers[j], TO)
          /\ Len(AttemptsOf(j)) = 1
          /\ ~AttemptsOf(j)[1].row

\* C9: no two remote attempts follow each other without a sleep in between.
C9_SleepBetweenAttempts ==
    \A n \in 1..(Len(trace) - 1) :
       ~(IsAttempt(trace[n]) /\ IsAttempt(trace[n + 1]))

-----------------------------------------------------------------------------
(* Properties of the main block (MainSpec).                                *)

NoDup(s) == \A a, b \in DOMAIN s : a # b => s[a] # s[b]
Reverse(s) == [n \in DOMAIN s |-> s[Len(s) + 1 - n]]
Sources == Range(sp500) \cup Range(nasdaq) \cup Range(russell)
              \cup Range(tsx) \cup Range(custom)
AfterDedup ==
    pc \in {"fetch_call", "loop_head", "attempt", "returned", "saved"}

\* C3: no two rows of the table carry the same Ticker, in data_list and in
\* the saved file alike.
C3_OneRowPerTicker ==
    /\ \A a, b \in DOMAIN data_list :
          a # b => data_list[a].Ticker # data_list[b].Ticker
    /\ stock_data_csv # <<>> => stock_data_csv[1] = data_list

\* C3 witness: a saved snapshot of three rows or more, one of them recorded
\* under the .NE symbol after the .TO attempt failed.
C3_Witness ==
    /\ pc = "saved"
    /\ Len(stock_data_csv[1]) >= 3
    /\ \E n \in DOMAIN data_list : endswith(data_list[n].Ticker, NE)

\* the page lacks what get_sp500_tickers reads
MissingSP500(page) ==
    \/ ~page.up
    \/ Len(page.tables) = 0
    \/ "Symbol" \notin DOMAIN page.tables[1]

\* the page lacks what the Nasdaq and Russell scrapers read
MissingIndex(page) ==
    \/ ~page.up
    \/ \A n \in DOMAIN page.tables :
          "Ticker" \notin DOMAIN page.tables[n]
          /\ "Symbol" \notin DOMAIN page.tables[n]

\* the page lacks what get_tsx_composite_tickers reads
MissingTSX(page) ==
    \/ ~page.up
    \/ Len(page.tables) < 4
    \/ DOMAIN page.tables[4] \cap {"Ticker", "Symbol", "Ticker symbol"} = {}

\* C4: no scraper lets an exception out; a scraper whose page is missing or
\* lacks its table or column returned the empty list; and the master list
\* is then built from whatever the five sources gave.
C4_MissingPageGivesEmptyList ==
    /\ pc # "crashed"
    /\ pc # "sp500" /\ MissingSP500(pages.sp500) => sp500 = <<>>
    /\ pc \notin {"sp500", "nasdaq"} /\ MissingIndex(pages.nasdaq)
          => nasdaq = <<>>
    /\ pc \notin {"sp500", "nasdaq", "russell"} /\ MissingIndex(pages.russell)
          => russell = <<>>
    /\ pc \notin {"sp500", "nasdaq", "russell", "tsx"} /\ MissingTSX(pages.tsx)
          => tsx = <<>>
    /\ AfterDedup => /\ custom = get_custom_tickers
                     /\ Range(master_list) = Sources

\* C4 witness: the S&P page is down and the TSX page has three tables, and
\* the master list was still built from the Nasdaq list and the custom list.
C4_Witness ==
    /\ pc = "fetch_call"
    /\ ~pages.sp500.up
    /\ pages.tsx.up /\ Len(pages.tsx.tables) = 3
    /\ sp500 = <<>> /\ tsx = <<>>
    /\ nasdaq # <<>>
    /\ Range(master_list) = Range(nasdaq) \cup Range(custom)
    /\ Len(master_list) >= 2

\* C8: the master list holds every symbol of the five sources exactly once;
\* listing the sources, or the symbols inside them, in another order gives
\* the same set; deduplicating the master list again changes nothing.
C8_MasterListIsUnion ==
    AfterDedup =>
       /\ NoDup(master_list)
       /\ Range(master_list) = Sources
       /\ pc = "fetch_call" =>
            /\ \A m \in master_lists(custom, tsx, russell, nasdaq, sp500) :
                  Range(m) = Range(master_list) /\ Len(m) = Len(master_list)
            /\ \A m \in master_lists(Reverse(sp500), Reverse(nasdaq),
                                     Reverse(russell), Reverse(tsx),
                                     Reverse(custom)) :
                  Range(m) = Range(master_list) /\ Len(m) = Len(master_list)
            /\ \A m \in master_lists(master_list, <<>>, <<>>, <<>>, <<>>) :
                  Range(m) = Range(master_list) /\ Len(m) = Len(master_list)

\* C8 witness: a symbol served by two sources, and a master list of three
\* symbols or more that is shorter than the concatenation.
C8_Witness ==
    /\ pc = "fetch_call"
    /\ Range(sp500) \cap Range(nasdaq) # {}
    /\ Len(master_list) >= 3
    /\ Len(master_list) < Len(sp500) + Len(nasdaq) + Len(russell) + Len(tsx)
                             + Len(custom)

-----------------------------------------------------------------------------
(* app.py: the dashboard.                                                  *)
(*                                                                         *)
(* The snapshot file is "missing" or holds one of the tables of Snapshots, *)
(* named by its key.  The fetch run only ever creates or replaces the      *)
(* file.  Numbers are integers; a nullable cell is <<>> (NaN) or <<v>>.    *)

NaN == <<>>

Table1 ==
    << [Ticker |-> "AAA", Num_Analysts |-> <<2>>, Upside_Potential |-> 10,
        Dividend_Yield |-> 0, Rating |-> "buy", Sector |-> <<"Tech">>,
        Forward_PE |-> <<15>>, Trailing_PE |-> NaN],
       [Ticker |-> "BBB", Num_Analysts |-> <<1>>, Upside_Potential |-> -5,
        Dividend_Yield |-> 2, Rating |-> "hold", Sector |-> <<"Energy">>,
        Forward_PE |-> NaN, Trailing_PE |-> <<20>>],
       [Ticker |-> "CCC", Num_Analysts |-> NaN, Upside_Potential |-> 10,
        Dividend_Yield |-> 1, Rating |-> "buy", Sector |-> NaN,
        Forward_PE |-> <<9>>, Trailing_PE |-> <<12>>] >>

Table2 ==
    << [Ticker |-> "AAA", Num_Analysts |-> <<3>>, Upside_Potential |-> 0,
        Dividend_Yield |-> 0, Rating |-> "buy", Sector |-> <<"Tech">>,
        Forward_PE |-> <<15>>, Trailing_PE |-> <<30>>],
       [Ticker |-> "DDD", Num_Analysts |-> <<0>>, Upside_Potential |-> 25,
        Dividend_Yield |-> 3, Rating |-> "sell", Sector |-> <<"Tech">>,
        Forward_PE |-> <<15>>, Trailing_PE |-> <<10>>] >>

Snapshots == {"T1", "T2"}
Rows(t) == IF t = "T1" THEN Table1 ELSE Table2

\* values the user may type into the two number inputs
UpsideFloors == {-10, 0, 20}
DivFloors == {0, 2}
SortColumns == {"Upside_Potential", "Num_Analysts", "Forward_PE", "Trailing_PE"}

\* return pd.read_csv("stock_data.csv"): raises when there is no file
load_data_try(file) == IF file = "missing" THEN Exc ELSE Ok(file)

\* load_data with no except clause around its body
load_data_noexcept(file) == load_data_try(file)

\* the body of load_data: except FileNotFoundError: return None
load_data(file) ==
    LET r == load_data_try(file) IN IF r.raised THEN Ok("None") ELSE r

\* the button handler leaving the cache as it is
keep_cache(c) == c

\* st.cache_data.clear()
clear_cache(c) == "empty"

\* sorted(df['Sector'].dropna().unique())
available_sectors(rows) ==
    {rows[n].Sector[1] : n \in {m \in DOMAIN rows : rows[m].Sector # NaN}}

\* df['Rating'].unique()
ratings(rows) == {rows[n].Rating : n \in DOMAIN rows}

\* df['Num_Analysts'].max(): NaN cells are skipped, NaN when none is left
analysts_max(rows) ==
    LET known == {rows[n].Num_Analysts[1] :
                     n \in {m \in DOMAIN rows : rows[m].Num_Analysts # NaN}}
    IN IF known = {} THEN NaN
       ELSE <<CHOOSE v \in known : \A w \in known : w <= v>>

\* x >= floor on a nullable cell: a comparison with NaN is False
ge(x, floor) == x # NaN /\ x[1] >= floor

\* the mask with the upside comparison turned around
mask_le(rows, ma, mu, md, rf, ss) ==
    {n \in DOMAIN rows :
        /\ ge(rows[n].Num_Analysts, ma)
        /\ rows[n].Upside_Potential <= mu
        /\ rows[n].Dividend_Yield >= md
        /\ rows[n].Rating \in rf
        /\ rows[n].Sector # NaN /\ rows[n].Sector[1] \in ss}

\* the boolean mask of filtered_df: the positions of the rows kept
mask(rows, ma, mu, md, rf, ss) ==
    {n \in DOMAIN rows :
        /\ ge(rows[n].Num_Analysts, ma)
        /\ rows[n].Upside_Potential >= mu
        /\ rows[n].Dividend_Yield >= md
        /\ rows[n].Rating \in rf
        /\ rows[n].Sector # NaN /\ rows[n].Sector[1] \in ss}

\* df[mask]: the rows kept, in the order of df
take(rows, keep) == SelectSeq([n \in DOMAIN rows |-> <<n, rows[n]>>],
                              LAMBDA p : p[1] \in keep)
select(rows, keep) == [n \in DOMAIN take(rows, keep) |-> take(rows, keep)[n][2]]

\* the sort key of a row, as a nullable number
key(row, col) ==
    CASE col = "Upside_Potential" -> <<row.Upside_Potential>>
      [] col = "Num_Analysts"     -> row.Num_Analysts
      [] col = "Forward_PE"       -> row.Forward_PE
      [] col = "Trailing_PE"      -> row.Trailing_PE

\* DataFrame.sort_values(by, ascending): NaN keys last in both directions;
\* the default sort is not stable, so rows with equal keys come in any order
sort_values(rows, by, asc) ==
    {[n \in DOMAIN rows |-> rows[p[n]]] : p \in
       {q \in Perms(DOMAIN rows) :
          \A a, b \in DOMAIN rows : a < b =>
             LET x == key(rows[q[a]], by)
                 y == key(rows[q[b]], by)
             IN /\ x = NaN => y = NaN
                /\ x # NaN /\ y # NaN =>
                      IF asc THEN x[1] <= y[1] ELSE x[1] >= y[1]}}

\* the flag computed with the flip left out
ascending_always(col) == TRUE

\* ascending=(sort_col in ["Forward_PE", "Trailing_PE"])
ascending(col) == col \in {"Forward_PE", "Trailing_PE"}

RunLocalsReset ==
    /\ df' = "unset"
    /\ min_analysts' = 0 /\ min_upside' = 0 /\ min_div' = 0
    /\ rating_filter' = {} /\ selected_sectors' = {}
    /\ sort_col' = "Upside_Potential"
    /\ filtered_df' = <<>> /\ sorted_df' = <<>>
    /\ shown' = "nothing" /\ ran' = {}

\* the user presses "Refresh Data": the script reruns with the button True
UserPressesRefresh ==
    /\ dpc = "done"
    /\ dpc' = "start" /\ button' = TRUE
    /\ RunLocalsReset
    /\ UNCHANGED <<fetchVars, disk, cache, hist>>

\* the user touches any other widget: the script reruns
UserChangesWidget ==
    /\ dpc = "done"
    /\ dpc' = "start" /\ button' = FALSE
    /\ RunLocalsReset
    /\ UNCHANGED <<fetchVars, disk, cache, hist>>

\* if st.sidebar.button(...): st.cache_data.clear(); st.rerun()
RefreshPressed ==
    /\ dpc = "start" /\ button
    /\ cache' = clear_cache(cache)
    /\ hist' = [hist EXCEPT !.refresh = TRUE]
    /\ button' = FALSE
    /\ dpc' = "start"
    /\ UNCHANGED <<fetchVars, disk, df, min_analysts, min_upside, min_div,
                   rating_filter, selected_sectors, sort_col, filtered_df,
                   sorted_df, shown, ran>>

\* the button is not pressed: the script goes on to load_data()
ButtonIdle ==
    /\ dpc = "start" /\ ~button
    /\ dpc' = "load"
    /\ UNCHANGED <<fetchVars, disk, cache, df, min_analysts, min_upside,
                   min_div, rating_filter, selected_sectors, sort_col,
                   filtered_df, sorted_df, shown, button, ran, hist>>

\* df = load_data() through st.cache_data: a stored value is returned as it
\* is, otherwise the body runs and its return value (None too) is stored
LoadData ==
    /\ dpc = "load"
    /\ LET r == IF cache # "empty" THEN Ok(cache) ELSE load_data(disk) IN
       /\ hist' = [last |-> IF r.raised THEN hist.last ELSE r.val,
                   prev |-> hist.last, disk |-> disk,
                   refresh |-> FALSE, expiry |-> FALSE,
                   refreshed |-> hist.refresh, expired |-> hist.expiry]
       /\ IF r.raised
          THEN dpc' = "crashed" /\ UNCHANGED <<df, cache>>
          ELSE dpc' = "check" /\ df' = r.val /\ cache' = r.val
    /\ ran' = ran \cup {"load_data"}
    /\ UNCHANGED <<fetchVars, disk, min_analysts, min_upside, min_div,
                   rating_filter, selected_sectors, sort_col, filtered_df,
                   sorted_df, shown, button>>

\* if df is None: st.error(...); st.stop()
StopOnNone ==
    /\ dpc = "check" /\ df = "None"
    /\ shown' = "error"
    /\ dpc' = "done"
    /\ UNCHANGED <<fetchVars, disk, cache, df, min_analysts, min_upside,
                   min_div, rating_filter, selected_sectors, sort_col,
                   filtered_df, sorted_df, button, ran, hist>>

\* the sidebar widgets: each returns what the user has set it to
Widgets ==
    /\ dpc = "check" /\ df # "None"
    /\ ran' = ran \cup {"widgets"}
    /\ IF analysts_max(Rows(df)) = NaN
       THEN /\ dpc' = "crashed"         \* int(nan) raises ValueError
            /\ UNCHANGED <<min_analysts, min_upside, min_div, rating_filter,
                           selected_sectors>>
       ELSE /\ min_analysts' \in 0..analysts_max(Rows(df))[1]
            /\ min_upside' \in UpsideFloors
            /\ min_div' \in DivFloors
            /\ rating_filter' \in SUBSET ratings(Rows(df))
            /\ selected_sectors' \in SUBSET available_sectors(Rows(df))
            /\ dpc' = "filter"
    /\ UNCHANGED <<fetchVars, disk, cache, df, sort_col, filtered_df,
                   sorted_df, shown, button, hist>>

\* filtered_df = df[...]
ApplyFilters ==
    /\ dpc = "filter"
    /\ filtered_df' = select(Rows(df), mask(Rows(df), min_analysts, min_upside,
                                            min_div, rating_filter,
                                            selected_sectors))
    /\ ran' = ran \cup {"filter"}
    /\ dpc' = "sort"
    /\ UNCHANGED <<fetchVars, disk, cache, df, min_analysts, min_upside,
                   min_div, rating_filter, selected_sectors, sort_col,
                   sorted_df, shown, button, hist>>

\* sort_col = st.radio(...); sorted_df = filtered_df.sort_values(...)
Sort ==
    /\ dpc = "sort"
    /\ \E col \in SortColumns :
          /\ sort_col' = col
          /\ sorted_df' \in sort_values(filtered_df, col, ascending(col))
    /\ ran' = ran \cup {"sort"}
    /\ dpc' = "render"
    /\ UNCHANGED <<fetchVars, disk, cache, df, min_analysts, min_upside,
                   min_div, rating_filter, selected_sectors, filtered_df,
                   shown, button, hist>>

\* st.metric("Stocks Found", len(sorted_df)); st.dataframe(sorted_df, ...)
Render ==
    /\ dpc = "render"
    /\ shown' = "table"
    /\ dpc' = "done"
    /\ UNCHANGED <<fetchVars, disk, cache, df, min_analysts, min_upside,
                   min_div, rating_filter, selected_sectors, sort_col,
                   filtered_df, sorted_df, button, ran, hist>>

\* a fetch run replaces the snapshot file
FetchRunReplacesFile ==
    /\ \E t \in Snapshots : t # disk /\ disk' = t
    /\ UNCHANGED <<fetchVars, dpc, cache, df, min_analysts, min_upside,
                   min_div, rating_filter, selected_sectors, sort_col,
                   filtered_df, sorted_df, shown, button, ran, hist>>

\* ttl="2h": the stored value expires
TTLExpires ==
    /\ cache # "empty"
    /\ cache' = "empty"
    /\ hist' = [hist EXCEPT !.expiry = TRUE]
    /\ UNCHANGED <<fetchVars, dpc, disk, df, min_analysts, min_upside,
                   min_div, rating_filter, selected_sectors, sort_col,
                   filtered_df, sorted_df, shown, button, ran>>

\* streamlit run app.py: first run, nothing cached
DashInit ==
    /\ pc = "idle"
    /\ pages = [sp500 |-> Down, nasdaq |-> Down, russell |-> Down, tsx |-> Down]
    /\ sp500 = <<>> /\ nasdaq = <<>> /\ russell = <<>> /\ tsx = <<>>
    /\ custom = <<>> /\ master_list = <<>> /\ tickers = <<>>
    /\ FetchLocalsInit
    /\ dpc = "start" /\ button = FALSE
    /\ disk \in {"missing"} \cup Snapshots
    /\ cache = "empty" /\ df = "unset"
    /\ min_analysts = 0 /\ min_upside = 0 /\ min_div = 0
    /\ rating_filter = {} /\ selected_sectors = {}
    /\ sort_col = "Upside_Potential"
    /\ filtered_df = <<>> /\ sorted_df = <<>>
    /\ shown = "nothing" /\ ran = {}
    /\ hist = [last |-> "unset", prev |-> "unset", disk |-> "missing",
               refresh |-> FALSE, expiry |-> FALSE,
               refreshed |-> FALSE, expired |-> FALSE]

DashNext ==
    \/ UserPressesRefresh \/ UserChangesWidget
    \/ RefreshPressed \/ ButtonIdle \/ LoadData \/ StopOnNone
    \/ Widgets \/ ApplyFilters \/ Sort \/ Render
    \/ FetchRunReplacesFile \/ TTLExpires

DashSpec == DashInit /\ [][DashNext]_vars

-----------------------------------------------------------------------------
(* Properties of the dashboard (DashSpec).                                 *)

\* the run has computed filtered_df
Filtered == dpc \in {"sort", "render"} \/ (dpc = "done" /\ shown = "table")
\* the run has computed sorted_df
Sorted == dpc = "render" \/ (dpc = "done" /\ shown = "table")

\* floors to compare against: everything the widgets offer, and beyond
AnalystFloors == 0..4
HigherUpsideFloors == UpsideFloors \cup {5, 10, 30}
HigherDivFloors == DivFloors \cup {1, 3, 4}

\* C5: with the sector and rating selections fixed, the rows kept at any
\* higher analyst, upside or dividend floor are among the rows of
\* filtered_df, so the count shown can only go down.
C5_FilterMonotonic ==
    Filtered =>
       LET rows == Rows(df)
           kept == {filtered_df[n] : n \in DOMAIN filtered_df}
           at(ma, mu, md) ==
               select(rows, mask(rows, ma, mu, md, rating_filter,
                                 selected_sectors))
           within(t) == Range(t) \subseteq kept /\ Len(t) <= Len(filtered_df)
       IN /\ \A h \in AnalystFloors :
                h >= min_analysts => within(at(h, min_upside, min_div))
          /\ \A h \in HigherUpsideFloors :
                h >= min_upside => within(at(min_analysts, h, min_div))
          /\ \A h \in HigherDivFloors :
                h >= min_div => within(at(min_analysts, min_upside, h))
          /\ Sorted => Len(sorted_df) = Len(filtered_df)

\* C5 witness: two rows pass the filter, and a higher upside floor would
\* keep one of them and drop the other.
C5_Witness ==
    /\ dpc = "sort"
    /\ Len(filtered_df) = 2
    /\ \E h \in HigherUpsideFloors :
          /\ h > min_upside
          /\ Cardinality(mask(Rows(df), min_analysts, h, min_div,
                              rating_filter, selected_sectors)) = 1

\* C6: a load_data call that finds no file returns None and does not crash;
\* a run whose df is None executes nothing after load_data (no widget, no
\* mask, no sort) and ends showing the error.
C6_MissingFileStops ==
    /\ dpc = "crashed" => hist.disk # "missing"
    /\ dpc = "check" /\ hist.disk = "missing" => df = "None"
    /\ df = "None" =>
          /\ dpc \in {"check", "done"}
          /\ ran = {"load_data"}
          /\ filtered_df = <<>> /\ sorted_df = <<>>
          /\ dpc = "done" => shown = "error"

\* C6 witness: a run that found no file and ended in the error state.
C6_Witness ==
    /\ dpc = "done" /\ shown = "error"
    /\ hist.disk = "missing" /\ disk = "missing"
    /\ df = "None"

Count(s, x) == Cardinality({n \in DOMAIN s : s[n] = x})

\* C7: sorted_df is in descending order of the key when the sort column is
\* Upside_Potential or Num_Analysts and in ascending order when it is
\* Forward_PE or Trailing_PE (rows without a key aside), and it holds the
\* rows of filtered_df, each as often as filtered_df does.
C7_SortDirection ==
    Sorted =>
       /\ \A a, b \in DOMAIN sorted_df :
             LET x == key(sorted_df[a], sort_col)
                 y == key(sorted_df[b], sort_col)
             IN a < b /\ x # NaN /\ y # NaN =>
                  /\ sort_col \in {"Upside_Potential", "Num_Analysts"}
                        => x[1] >= y[1]
                  /\ sort_col \in {"Forward_PE", "Trailing_PE"}
                        => x[1] <= y[1]
       /\ Len(sorted_df) = Len(filtered_df)
       /\ \A r \in Range(filtered_df) \cup Range(sorted_df) :
             Count(sorted_df, r) = Count(filtered_df, r)

\* C7 witness: sorting by upside put a later row of filtered_df first.
C7_Witness ==
    /\ dpc = "render"
    /\ sort_col = "Upside_Potential"
    /\ Len(sorted_df) >= 2
    /\ sorted_df # filtered_df
    /\ sorted_df[1].Upside_Potential > sorted_df[Len(sorted_df)].Upside_Potential

\* what reading the file gives
OnDisk(file) == IF file = "missing" THEN "None" ELSE file

\* C10: the first load_data call after "Refresh Data" returns the file as it
\* was on disk at the call, whatever was cached before (None too); a call
\* with no refresh and no expiry since the previous call returns what the
\* previous call returned, whatever the file holds by then.
C10_RefreshRereadsFile ==
    dpc = "check" =>
       /\ hist.refreshed => df = OnDisk(hist.disk)
       /\ ~hist.refreshed /\ ~hist.expired /\ hist.prev # "unset"
             => df = hist.prev

\* C10 witness: None was cached for a missing file, a fetch run wrote the
\* file, and the load after the refresh returned the new table.
C10_Witness ==
    /\ dpc = "check"
    /\ hist.refreshed
    /\ hist.prev = "None"
    /\ df \in Snapshots

=============================================================================
